---- MODULE Spec2Model ----
(***************************************************************************)
(* Model of the web-claude frontend (src/frontend/src/ui/App.jsx): the     *)
(* App component's repository selection (openRepo, handleGoHome) and the   *)
(* RepoActions view: its polling effects, its refresh functions with their *)
(* single-flight refs and abort controllers, and its git mutations.        *)
(*                                                                         *)
(* One step of the model is one browser task together with the microtasks  *)
(* it queues: an event handler, a timer callback, a network completion     *)
(* followed by the promise continuations it resumes, or a React commit     *)
(* with the effect cleanups and effects it runs.                           *)
(***************************************************************************)
EXTENDS Integers, Sequences, FiniteSets, TLC

\* ------------------------------------------------------------------ bounds

\* Number of RepoActions instances mounted over a run.
MaxInst == 2
\* The same where the claim is about what happens within a single view.
MaxInstOne == 1
\* Number of git mutations (doPull, doCheckout, ...) running at the same time,
\* not counting further invocations of the same mutation of the same view.
MaxMutations == 1
\* Largest "behind" count the backend reports.
MaxBehind == 1
\* Number of clone requests in flight at the same time.
MaxClones == 1
\* Number of invocations of one mutation of a view running at the same time.
MaxOverlap == 2
\* Number of file sections of a diff where the claim is about the sections.
MaxSections == 2
\* Number of runs of the terminal's effect (terminal sessions) over a run.
MaxSessions == 3
\* Number of messages of one terminal session being read at the same time.
MaxReading == 1

\* ------------------------------------------------------------------ data

\* Repositories; a repository is identified with the repoPath the clone
\* endpoint returns for it.  NoRepo is both currentRepo = null and
\* meta.repoPath = "".
Repos == {"A", "B"}
NoRepo == ""

\* A path is the sequence of its pieces; the piece Sep is the text " b/" (the
\* end of a directory name that ends in " b"), the other pieces are texts
\* without " b/".  NoPath is "".
Sep == " b/"
NoPath == << >>

\* A diff text is the sequence of its lines (the result of split(/\n/)); a
\* line is one of
\*   hdr    "diff --git a/" a " b/" b, as git writes the header of the section
\*          of pre-image path a and post-image path b
\*   git    "diff --git " followed by quoted paths ("a/..." "b/..."), as git
\*          writes the header when a path has a byte it escapes
\*   new    "new file mode ..."             del    "deleted file mode ..."
\*   rnTo   "rename to " b                  rnFrom "rename from " a
\*   other  any other non-blank line        blank  the empty line
Line(k, a, b) == [k |-> k, a |-> a, b |-> b]
Hdr(a, b) == Line("hdr", a, b)
Git == Line("git", NoPath, NoPath)
Other == Line("other", NoPath, NoPath)
Blank == Line("blank", NoPath, NoPath)

\* The text "".
EmptyText == << Blank >>

\* Number of file chips shown before the "+N" chip.
ChipLimit == 10

\* A diff with more sections than ChipLimit: a header and a hunk line per file.
ManyFiles == ChipLimit + 1
TextMany ==
    [n \in 1..(2 * ManyFiles) |->
        IF n % 2 = 1 THEN Hdr(<< ToString((n + 1) \div 2) >>, << ToString((n + 1) \div 2) >>)
        ELSE Other]

\* "diff --git a/x.txt b/x.txt\n@@ -1 +1 @@\n-old\n+new\n"
TextX == << Hdr(<< "x.txt" >>, << "x.txt" >>), Other, Other, Other, Blank >>

DiffTexts == {EmptyText, TextX, TextMany}

\* Paths: x.txt, y.txt, and z.txt in the directory "d b".
PathX == << "x.txt" >>
PathY == << "y.txt" >>
PathD == << "d", Sep, "z.txt" >>

New == Line("new", NoPath, NoPath)
Del == Line("del", NoPath, NoPath)
RnFrom(a) == Line("rnFrom", a, NoPath)
RnTo(b) == Line("rnTo", NoPath, b)

\* Sections as git writes them: a file modified, added, deleted and renamed,
\* a file of the directory "d b" modified and deleted, and a file whose name
\* git quotes.
Sections ==
    { << Hdr(PathX, PathX), Other >>,
      << Hdr(PathX, PathX), New, Other >>,
      << Hdr(PathY, PathY), New, Other >>,
      << Hdr(PathX, PathX), Del, Other >>,
      << Hdr(PathX, PathY), RnFrom(PathX), RnTo(PathY) >>,
      << Hdr(PathD, PathD), Other >>,
      << Hdr(PathD, PathD), Del, Other >>,
      << Git, Other >> }

\* Two sections that one diff can hold, in this order: sections of different
\* files, or the two sections git writes for a file whose type changed (the
\* old file deleted, the new one added under the same path).
Together(s1, s2) ==
    \/ {s1[1].a, s1[1].b} \cap {s2[1].a, s2[1].b} = {}
    \/ /\ s1[1] = s2[1]
       /\ s1[2] = Del
       /\ s2[2] = New

\* The diffs of up to MaxSections sections, each ending in a line break.
FileTexts ==
    {EmptyText}
      \cup { s \o << Blank >> : s \in Sections }
      \cup { s[1] \o s[2] \o << Blank >> :
               s \in { p \in Sections \X Sections : Together(p[1], p[2]) } }

\* A test that takes every text for a diff.
NonBlankAlways(text) == TRUE

\* (patch || "").trim() is non-empty.
NonBlank(text) == \E n \in 1..Len(text) : text[n].k # "blank"

\* lines[j].startsWith('diff --git ')
StartsSection(l) == l.k \in {"hdr", "git"}

\* The inner while loop of parseChangedFiles: scans the section body from
\* line j and returns where it stopped with the status and post-image path.
RECURSIVE ScanSection(_, _, _, _)
ScanSection(lines, j, to, status) ==
    IF j > Len(lines) \/ StartsSection(lines[j])
    THEN [j |-> j, to |-> to, status |-> status]
    ELSE LET l == lines[j]
             st == CASE l.k = "new" -> "added"
                     [] l.k = "del" -> "deleted"
                     [] l.k \in {"rnTo", "rnFrom"} -> "renamed"
                     [] OTHER -> status
             t == IF l.k = "rnTo" THEN l.b ELSE to
         IN ScanSection(lines, j + 1, t, st)

\* /^diff --git a\/(.+?) b\/(.+)$/.exec(line): on the text after
\* "diff --git a/" the lazy first group ends before the first " b/" that
\* leaves both groups non-empty, and the second group is the rest of the line.
Exec(l) ==
    LET w == l.a \o << Sep >> \o l.b
        at == { n \in 2..(Len(w) - 1) : w[n] = Sep }
    IN  IF l.k = "hdr" /\ at # {}
        THEN LET n == CHOOSE x \in at : \A y \in at : x <= y
             IN  [ok |-> TRUE, from |-> SubSeq(w, 1, n - 1), to |-> SubSeq(w, n + 1, Len(w))]
        ELSE [ok |-> FALSE, from |-> NoPath, to |-> NoPath]

\* The outer while loop of parseChangedFiles from line i on.
RECURSIVE ParseFrom(_, _, _)
ParseFrom(lines, i, out) ==
    IF i > Len(lines) THEN out
    ELSE LET m == Exec(lines[i])
         IN  IF m.ok
             THEN LET s == ScanSection(lines, i + 1, m.to, "modified")
                      path == IF s.status = "deleted" THEN m.from ELSE s.to
                  IN ParseFrom(lines, s.j, Append(out, [path |-> path, status |-> s.status]))
             ELSE ParseFrom(lines, i + 1, out)

parseChangedFiles(patch) == ParseFrom(patch, 1, << >>)

\* The inner while loop of extractFileDiff: the first line from j on that
\* starts a section, or the line after the last.
RECURSIVE SectionEnd(_, _)
SectionEnd(lines, j) ==
    IF j > Len(lines) \/ StartsSection(lines[j]) THEN j ELSE SectionEnd(lines, j + 1)

\* The outer while loop of extractFileDiff from line i on.
RECURSIVE ExtractFrom(_, _, _)
ExtractFrom(lines, i, filePath) ==
    IF i > Len(lines) THEN EmptyText
    ELSE IF StartsSection(lines[i])
         THEN LET m == Exec(lines[i])
                  j == SectionEnd(lines, i + 1)
              IN  IF m.from = filePath \/ m.to = filePath
                  THEN SubSeq(lines, i, j - 1)
                  ELSE ExtractFrom(lines, j, filePath)
         ELSE ExtractFrom(lines, i + 1, filePath)

\* extractFileDiff: without a text or without a path it returns the text.
extractFileDiff(diffText, filePath) ==
    IF diffText = EmptyText \/ filePath = NoPath THEN diffText
    ELSE ExtractFrom(diffText, 1, filePath)

\* displayedPatch: useMemo over [patch, selectedDiffFile].
displayedPatch(text, selected) ==
    IF selected = NoPath THEN text ELSE extractFileDiff(text, selected)

\* A selection that is kept whatever the changed files are.
SyncSelectionMissing(files, selected) == selected

\* The effect on [changedFiles, selectedDiffFile]: a selected path that is not
\* the path of a changed file is cleared.
SyncSelection(files, selected) ==
    IF selected # NoPath /\ ~ \E n \in 1..Len(files) : files[n].path = selected
    THEN NoPath
    ELSE selected

\* ------------------------------------------------------------------ state

VARIABLES
    currentRepo,     \* App: currentRepo (NoRepo for null)
    repoPath,        \* App: meta.repoPath
    clones,          \* repositories with a /api/git/clone request in flight
    inst,            \* number of RepoActions instances mounted so far
    patch,           \* RepoActions state of the mounted instance ...
    changedFiles,
    selectedDiffFile,
    showAllChanged,
    pullInfo,
    branches,
    log,
    busy,            \* pulling, pushing, rolling, checkingOut, creatingBranch
    showBranchDropdown,
    showNewBranchModal,
    newBranchName,
    newBranchSource, \* the branch the modal offers to create from
    diffPending,     \* diffPendingRef.current of every instance
    statusPending,   \* statusPendingRef.current of every instance
    timers,          \* live setInterval timers
    reqs,            \* network requests in flight
    backend,         \* the working copy on the server: what a fetch answers with
    isMountedRef,    \* ClaudeTerminal: isMountedRef.current
    wsStateRef,      \* ClaudeTerminal: wsStateRef.current
    sessions,        \* ClaudeTerminal: the term and ws of every run of its effect
    current,         \* App: current, the selected group (provider and key)
    providers,       \* App: whether providers holds the fetched groups
    pendingRepoId,   \* App: pendingRepoId
    routeRef,        \* App: routeRef.current (the params of the route)
    openingFromUrlRef, \* App: openingFromUrlRef.current
    hash,            \* location.hash: the parts of its query string
    hashchange,      \* a hashchange event is waiting to be dispatched
    loading,         \* the /api/providers request of load() is in flight
    opens,           \* the openRepo calls awaiting their clone, with their caller
    resets,          \* the setTimeout of load() is waiting to fire
    msgs             \* what this step told the user: toasts, alerts, console errors

vars == << currentRepo, repoPath, clones, inst, patch,
           changedFiles, selectedDiffFile, showAllChanged,
           pullInfo, branches, log, busy, showBranchDropdown, showNewBranchModal,
           newBranchName, newBranchSource,
           diffPending, statusPending, timers, reqs, backend,
           isMountedRef, wsStateRef, sessions,
           current, providers, pendingRepoId, routeRef, openingFromUrlRef,
           hash, hashchange, loading, opens, resets, msgs >>

Insts == 1..MaxInst

\* The changed-file chips: the list, the selected path and the "+N" state.
FileVars == << changedFiles, selectedDiffFile, showAllChanged >>

\* RepoActions is rendered while currentRepo is set (App.jsx 1076-1103).
Mounted == currentRepo # NoRepo
\* Instance i is the mounted one: setState on any other instance is a no-op.
Live(i) == Mounted /\ i = inst

Mutations == {"doCheckout", "doCreateBranch", "doPull", "doApplyCommitPush", "doRollback"}

\* The endpoint a mutation posts to.
PostEp(by) ==
    CASE by = "doCheckout" -> "checkout"
      [] by = "doCreateBranch" -> "createBranch"
      [] by = "doPull" -> "pull"
      [] by = "doApplyCommitPush" -> "commitPush"
      [] by = "doRollback" -> "rollback"

\* The busy flag of a mutation.
BusyFlag(by) ==
    CASE by = "doCheckout" -> "checkingOut"
      [] by = "doCreateBranch" -> "creatingBranch"
      [] by = "doPull" -> "pulling"
      [] by = "doApplyCommitPush" -> "pushing"
      [] by = "doRollback" -> "rolling"

\* The refreshes a mutation awaits, in order, after its post succeeded.
Followups(by) ==
    CASE by = "doCheckout" -> << "branches", "diff", "log" >>
      [] by = "doCreateBranch" -> << "branches", "diff" >>
      [] by = "doPull" -> << "log", "diff", "status" >>
      [] by = "doApplyCommitPush" -> << "log", "diff", "clipboard" >>
      [] by = "doRollback" -> << "diff" >>

FetchEps == {"diff", "status", "branches", "log"}

\* The local variables a mutation's continuation keeps across its awaits:
\* doPull's up, beforeBehind and afterBehind, doApplyCommitPush's fullHash;
\* source is the newBranchSource of the render whose functions the caller
\* runs, which refreshBranches reads; wrote records whether the invocation
\* has replaced published state so far.
NoLoc == [up |-> FALSE, before |-> 0, after |-> 0, hash |-> "",
          source |-> "main", wrote |-> FALSE]

\* Who awaits a request: "init" (the initial-load effect, with the signal of
\* the init controller), "poll" (a timer tick, with the signal of the
\* endpoint's polling controller) or the n-th running invocation of a mutation
\* (no signal) with its locals.
By(name, n, loc) == [name |-> name, n |-> n, loc |-> loc]
InitLoad == By("init", 0, NoLoc)
Poll == By("poll", 0, NoLoc)

\* A request in flight: its endpoint, the repoPath parameter its caller's
\* closure held, the instance that issued it, and who awaits it.
Req(ep, repo, i, by) ==
    [ep |-> ep, repo |-> repo, inst |-> i, by |-> by.name, n |-> by.n, loc |-> by.loc]
Awaiting(r) == By(r.by, r.n, r.loc)
HasSignal(r) == r.by \in {"init", "poll"}

\* useState initial values of RepoActions.
InitPullInfo == [upToDate |-> "null", behind |-> 0]
InitBranches == [current |-> "", all |-> << >>]
InitBusy == [pulling |-> FALSE, pushing |-> FALSE, rolling |-> FALSE,
             checkingOut |-> FALSE, creatingBranch |-> FALSE]

\* A branch name as typed: the sequence of its characters.
\* newBranchName.trim() drops the white space at both ends.
RECURSIVE TrimLeft(_)
TrimLeft(s) == IF s # << >> /\ Head(s) = " " THEN TrimLeft(Tail(s)) ELSE s
RECURSIVE TrimRight(_)
TrimRight(s) ==
    IF s # << >> /\ s[Len(s)] = " " THEN TrimRight(SubSeq(s, 1, Len(s) - 1)) ELSE s
\* A name tested as it was typed.
TrimNone(s) == s

Trim(s) == TrimRight(TrimLeft(s))

\* What the backend answers with: the diff text, status.behind, {current, all},
\* the commits, and a post's data: the pull's status {upToDate, before.behind,
\* after.behind} and the push's commit hash.  names: what the user types as a
\* branch name.
OneAnswer ==
    [diff |-> {TextX},
     behind |-> {1},
     branches |-> { [current |-> "main", all |-> << "main", "dev" >>] },
     log |-> { << "c1" >> },
     post |-> { [up |-> TRUE, before |-> 0, after |-> 0, hash |-> "h"] },
     names |-> { << "x" >> }]
AnyAnswer ==
    [diff |-> DiffTexts,
     behind |-> 0..MaxBehind,
     branches |-> { [current |-> c, all |-> << "main", "dev" >>] : c \in {"main", "dev"} },
     log |-> { << >>, << "c1" >> },
     post |-> [up : BOOLEAN, before : 0..MaxBehind, after : 0..MaxBehind, hash : {"", "h"}],
     names |-> { << >>, << " " >>, << " ", "x", " " >> }]

\* The locals a mutation keeps of its post's answer.
Loc(by, answer) ==
    CASE by = "doPull" ->
           [NoLoc EXCEPT !.up = answer.up, !.before = answer.before, !.after = answer.after]
      [] by = "doApplyCommitPush" -> [NoLoc EXCEPT !.hash = answer.hash]
      [] OTHER -> NoLoc

\* A group of repositories: a provider and a key; current is "provider:key".
Group(provider, key) == [provider |-> provider, key |-> key]
NoGroup == Group("", "")
Groups == { Group("github", "g1"), Group("gitlab", "g2") }

\* providers[provider][key] as /api/providers answers: the ids of the
\* repositories of a group.
ReposIn(g) ==
    IF g = Group("github", "g1") THEN {"A"}
    ELSE IF g = Group("gitlab", "g2") THEN {"B"}
    ELSE {}

\* The params of a route; "" for a parameter the hash lacks.
Params(provider, key, repo) == [provider |-> provider, key |-> key, repo |-> repo]
\* location.hash before the page is opened.
NoLocation == << << "about:blank", "" >> >>

\* The working copy of a fresh clone: its diff, how far it is behind its
\* remote and its branches; changing: it may still be changed from outside the
\* page (by the assistant in the terminal, by a pull).
InitBackend ==
    [diff |-> EmptyText, behind |-> 0,
     branches |-> [current |-> "main", all |-> << "main", "dev" >>],
     changing |-> TRUE]

\* The working copy with a file edited, a commit fetched and the other branch
\* checked out.
EditedBackend ==
    [diff |-> TextX, behind |-> 1,
     branches |-> [current |-> "dev", all |-> << "main", "dev" >>],
     changing |-> TRUE]

\* State that neither App nor RepoActions writes.
RouteVars == << current, providers, pendingRepoId, routeRef, openingFromUrlRef,
               hash, hashchange, loading, opens, resets >>
OtherVars == << backend, isMountedRef, wsStateRef, sessions, RouteVars >>

Init ==
    /\ backend = InitBackend
    /\ isMountedRef = TRUE
    /\ wsStateRef = "closed"
    /\ sessions = << >>
    /\ current = NoGroup
    /\ providers = FALSE
    /\ pendingRepoId = ""
    /\ routeRef = Params("", "", "")
    /\ openingFromUrlRef = FALSE
    /\ hash = NoLocation
    /\ hashchange = FALSE
    /\ loading = FALSE
    /\ opens = {}
    /\ resets = FALSE
    /\ currentRepo = NoRepo
    /\ repoPath = NoRepo
    /\ clones = {}
    /\ inst = 0
    /\ patch = EmptyText
    /\ changedFiles = << >>
    /\ selectedDiffFile = NoPath
    /\ showAllChanged = FALSE
    /\ pullInfo = InitPullInfo
    /\ branches = InitBranches
    /\ log = << >>
    /\ busy = InitBusy
    /\ showBranchDropdown = FALSE
    /\ showNewBranchModal = FALSE
    /\ newBranchName = << >>
    /\ newBranchSource = "main"
    /\ diffPending = [i \in Insts |-> FALSE]
    /\ statusPending = [i \in Insts |-> FALSE]
    /\ timers = {}
    /\ reqs = {}
    /\ msgs = << >>


\* ------------------------------------------------------------------ refresh functions

\* The refs and the network as the refresh functions read and write them.
Sync == [reqs |-> reqs, dp |-> diffPending, sp |-> statusPending]

Issued(s) == [s |-> s, issued |-> TRUE]
Skipped(s) == [s |-> s, issued |-> FALSE]

\* refreshLog: always fetches.
refreshLog(s, i, repo, by) ==
    Issued([s EXCEPT !.reqs = @ \cup {Req("log", repo, i, by)}])

\* refreshStatus: skips while statusPendingRef.current is set.
refreshStatus(s, i, repo, by) ==
    IF s.sp[i] THEN Skipped(s)
    ELSE Issued([s EXCEPT !.reqs = @ \cup {Req("status", repo, i, by)}, !.sp[i] = TRUE])

\* refreshBranches: returns at once without a repoPath, else always fetches.
refreshBranches(s, i, repo, by) ==
    IF repo = NoRepo THEN Skipped(s)
    ELSE Issued([s EXCEPT !.reqs = @ \cup {Req("branches", repo, i, by)}])

\* refreshDiff as it would be without the diffPendingRef test.
refreshDiffUnguarded(s, i, repo, by) ==
    IF repo = NoRepo THEN Skipped(s)
    ELSE Issued([s EXCEPT !.reqs = @ \cup {Req("diff", repo, i, by)}, !.dp[i] = TRUE])

\* refreshDiff: returns at once without a repoPath, skips while
\* diffPendingRef.current is set.
refreshDiff(s, i, repo, by) ==
    IF repo = NoRepo \/ s.dp[i] THEN Skipped(s)
    ELSE Issued([s EXCEPT !.reqs = @ \cup {Req("diff", repo, i, by)}, !.dp[i] = TRUE])

\* if (fullHash) await navigator.clipboard.writeText(fullHash)
writeText(s, i, repo, by) ==
    IF by.loc.hash = "" THEN Skipped(s)
    ELSE Issued([s EXCEPT !.reqs = @ \cup {Req("clipboard", repo, i, by)}])

Call(ep, s, i, repo, by) ==
    CASE ep = "log" -> refreshLog(s, i, repo, by)
      [] ep = "status" -> refreshStatus(s, i, repo, by)
      [] ep = "branches" -> refreshBranches(s, i, repo, by)
      [] ep = "diff" -> refreshDiff(s, i, repo, by)
      [] ep = "clipboard" -> writeText(s, i, repo, by)

\* A mutation's `await refreshX(); await refreshY(); ...` from its k-th
\* follow-up on: a refresh that returns at once lets the mutation run on in the
\* same step, one that fetches suspends it.  done: the try block ran to its end.
\* failed: the catch block ran.
RECURSIVE RunFrom(_, _, _, _, _)
RunFrom(by, k, s, i, repo) ==
    IF k > Len(Followups(by.name)) THEN [s |-> s, done |-> TRUE, failed |-> FALSE, by |-> by]
    ELSE LET c == Call(Followups(by.name)[k], s, i, repo, by)
         IN IF c.issued THEN [s |-> c.s, done |-> FALSE, failed |-> FALSE, by |-> by]
            ELSE RunFrom(by, k + 1, c.s, i, repo)

Stage(by, ep) == CHOOSE k \in 1..Len(Followups(by)) : Followups(by)[k] = ep

\* Whether a rejected await reaches the mutation's catch block:
\* refreshBranches catches its own failure, doPull wraps refreshStatus and
\* doApplyCommitPush the clipboard write in try/catch.
Throws(by, ep) == ~(ep \in {"branches", "clipboard"} \/ (by = "doPull" /\ ep = "status"))

\* Completion of request r (ok: resolved, else rejected): the finally of the
\* refresh function releases its ref, and the mutation awaiting r resumes as
\* by, its locals after this response.
Complete(r, ok, by) ==
    LET s0 == [reqs |-> reqs \ {r},
               dp |-> IF r.ep = "diff" THEN [diffPending EXCEPT ![r.inst] = FALSE]
                      ELSE diffPending,
               sp |-> IF r.ep = "status" THEN [statusPending EXCEPT ![r.inst] = FALSE]
                      ELSE statusPending]
        caught == [s |-> s0, done |-> TRUE, failed |-> TRUE, by |-> by]
    IN  IF r.by \notin Mutations THEN [s |-> s0, done |-> FALSE, failed |-> FALSE, by |-> by]
        ELSE IF r.ep = PostEp(r.by)
             THEN IF ok THEN RunFrom(by, 1, s0, r.inst, r.repo) ELSE caught
             ELSE IF ok \/ ~Throws(r.by, r.ep)
                  THEN RunFrom(by, Stage(r.by, r.ep) + 1, s0, r.inst, r.repo)
                  ELSE caught

\* A busy flag that is cleared at the end of the try block only.
FinallyOnSuccess(c, r) ==
    IF c.done /\ ~c.failed /\ Live(r.inst) THEN [busy EXCEPT ![BusyFlag(r.by)] = FALSE]
    ELSE busy

\* finally { setX(false) } of a mutation of the mounted instance.
Finally(c, r) ==
    IF c.done /\ Live(r.inst) THEN [busy EXCEPT ![BusyFlag(r.by)] = FALSE] ELSE busy

\* A message to the user (toast, alert) or to the console.
Msg(via, by, kind, count) == [via |-> via, by |-> by, kind |-> kind, count |-> count]

Max(a, b) == IF a > b THEN a ELSE b

\* const pulled = Math.max(0, beforeBehind - afterBehind)
pulled(loc) == Max(0, loc.before - loc.after)

\* The toast at the end of a mutation's try block.
Succeeded(by) ==
    CASE by.name = "doCheckout" -> Msg("toast", by.name, "switched", 0)
      [] by.name = "doCreateBranch" -> Msg("toast", by.name, "created", 0)
      [] by.name = "doPull" ->
           IF by.loc.up THEN Msg("toast", by.name, "upToDate", 0)
           ELSE IF pulled(by.loc) > 0 THEN Msg("toast", by.name, "pulled", pulled(by.loc))
           ELSE Msg("toast", by.name, "complete", 0)
      [] by.name = "doApplyCommitPush" ->
           IF by.loc.hash # "" THEN Msg("toast", by.name, "pushedCopied", 0)
           ELSE Msg("toast", by.name, "pushed", 0)
      [] by.name = "doRollback" -> Msg("toast", by.name, "discarded", 0)

\* The catch block of a mutation: a toast, and for pull, push and rollback an
\* alert as well.
Failed(by) ==
    IF by.name \in {"doCheckout", "doCreateBranch"}
    THEN << Msg("toast", by.name, "failed", 0) >>
    ELSE << Msg("toast", by.name, "failed", 0), Msg("alert", by.name, "failed", 0) >>

\* The error names of a cancelled request: axios rejects an aborted request
\* with a CanceledError, fetch with an AbortError.
CancelNames == {"CanceledError", "AbortError"}

\* A catch that logs whatever was thrown.
CaughtAny(r, name) ==
    IF r.by = "poll" \/ r.ep = "branches"
    THEN << Msg("console", r.by, "error", 0) >>
    ELSE << >>

\* The catch of a rejected fetch, for the name of the error thrown: the
\* .catch of the interval callbacks and the catch of refreshBranches call
\* console.error unless the name is that of a cancellation; the .catch of the
\* initial load swallows everything.
Caught(r, name) ==
    IF name \notin CancelNames /\ (r.by = "poll" \/ r.ep = "branches")
    THEN << Msg("console", r.by, "error", 0) >>
    ELSE << >>

\* console.error of a rejected poll (the .catch of the interval callback) and
\* of a rejected branches fetch (the catch of refreshBranches).
Console(r, ok) == IF ok THEN << >> ELSE Caught(r, "Error")

\* What the catches of the aborted requests in ab report, one after another.
RECURSIVE Cancelled(_)
Cancelled(ab) ==
    IF ab = {} THEN << >>
    ELSE LET r == CHOOSE q \in ab : TRUE
         IN  Caught(r, "CanceledError") \o Cancelled(ab \ {r})

\* What the step that completes r tells the user.
Outcome(c, r, ok) ==
    Console(r, ok) \o (IF ~c.done THEN << >>
                       ELSE IF c.failed THEN Failed(c.by)
                       ELSE << Succeeded(c.by) >>)

\* The end of the step that completes r: the state updates at the end of the
\* mutation's try block, its finally, and the messages.
Settle(c, r, ok) ==
    LET ended == c.done /\ ~c.failed /\ Live(r.inst)
    IN  /\ busy' = Finally(c, r)
        /\ showBranchDropdown' =
             IF ended /\ r.by = "doCheckout" THEN FALSE ELSE showBranchDropdown
        /\ showNewBranchModal' =
             IF ended /\ r.by = "doCreateBranch" THEN FALSE ELSE showNewBranchModal
        /\ newBranchName' =
             IF ended /\ r.by = "doCreateBranch" THEN << >> ELSE newBranchName
        /\ msgs' = Outcome(c, r, ok)

\* ------------------------------------------------------------------ effects

\* A cleanup that leaves its interval running.
clearIntervalMissing(tm, i) == tm

\* clearInterval(id) in the cleanups of the polling effects of instance i.
clearInterval(tm, i) == { t \in tm : t.inst # i }

\* Polling effects that set no interval.
setIntervalNever(tm, i, path) == tm

\* setInterval(...) in the two polling effects.
setInterval(tm, i, path) ==
    tm \cup { [ep |-> ep, repo |-> path, inst |-> i] : ep \in {"diff", "status"} }

\* controller.abort() in the effect cleanups and in the unmount cleanup: the
\* requests of instance i that carry a signal.
Aborted(s, i) == { r \in s.reqs : r.inst = i /\ HasSignal(r) }

\* The initial-load effect: Promise.all of the four refreshes.
InitialLoad(s, i, path) ==
    LET l == refreshLog(s, i, path, InitLoad)
        st == refreshStatus(l.s, i, path, InitLoad)
        d == refreshDiff(st.s, i, path, InitLoad)
        source == IF i = inst THEN newBranchSource ELSE NoLoc.source
        b == refreshBranches(d.s, i, path, [InitLoad EXCEPT !.loc.source = source])
    IN  b.s

\* One commit of instance i in which the effects depending on meta.repoPath
\* run: first every cleanup (abort, clearInterval), then, when setup, the
\* effects for path, which return at once without a repoPath; last the
\* microtasks: the aborted refreshes reject and their finally releases the ref.
RunEffects(s, tm, i, path, setup) ==
    LET ab == Aborted(s, i)
        s0 == [s EXCEPT !.reqs = @ \ ab]
        tm0 == clearInterval(tm, i)
        run == setup /\ path # NoRepo
        s1 == IF run THEN InitialLoad(s0, i, path) ELSE s0
        tm1 == IF run THEN setInterval(tm0, i, path) ELSE tm0
        s2 == [s1 EXCEPT
                 !.dp[i] = IF \E r \in ab : r.ep = "diff" THEN FALSE ELSE @,
                 !.sp[i] = IF \E r \in ab : r.ep = "status" THEN FALSE ELSE @]
    IN  [s |-> s2, timers |-> tm1, told |-> Cancelled(ab)]

PublishedVars == << patch, changedFiles, selectedDiffFile, showAllChanged,
                   pullInfo, branches, log, busy,
                   showBranchDropdown, showNewBranchModal, newBranchName,
                   newBranchSource >>
FormVars == << showBranchDropdown, showNewBranchModal, newBranchName, newBranchSource >>

\* A fresh or unmounted instance: the useState initial values.
ResetPublished ==
    /\ patch' = EmptyText
    /\ changedFiles' = << >>
    /\ selectedDiffFile' = NoPath
    /\ showAllChanged' = FALSE
    /\ pullInfo' = InitPullInfo
    /\ branches' = InitBranches
    /\ log' = << >>
    /\ busy' = InitBusy
    /\ showBranchDropdown' = FALSE
    /\ showNewBranchModal' = FALSE
    /\ newBranchName' = << >>
    /\ newBranchSource' = "main"

SetSync(s) ==
    /\ reqs' = s.reqs
    /\ diffPending' = s.dp
    /\ statusPending' = s.sp

\* ------------------------------------------------------------------ App

\* openRepo up to its await: setCurrentRepo(repo) and the clone request.
\* With no repository open this mounts RepoActions, with the meta.repoPath of
\* that moment.
openRepo(r) ==
    /\ currentRepo # r
    /\ r \notin clones
    /\ Cardinality(clones) < MaxClones
    /\ currentRepo = NoRepo => inst < MaxInst
    /\ currentRepo' = r
    /\ clones' = clones \cup {r}
    /\ UNCHANGED << repoPath, PublishedVars, OtherVars >>
    /\ IF currentRepo = NoRepo
       THEN LET e == RunEffects(Sync, timers, inst + 1, repoPath, TRUE)
            IN  /\ inst' = inst + 1
                /\ SetSync(e.s)
                /\ timers' = e.timers
                /\ msgs' = e.told
       ELSE /\ msgs' = << >>
            /\ UNCHANGED << inst, reqs, diffPending, statusPending, timers >>

\* openRepo after the clone resolved: setMeta({repoPath, ...}).
cloneResolved(r) ==
    /\ r \in clones
    /\ clones' = clones \ {r}
    /\ repoPath' = r
    /\ UNCHANGED << currentRepo, inst, PublishedVars, OtherVars >>
    /\ IF Mounted /\ repoPath # r
       THEN LET e == RunEffects(Sync, timers, inst, r, TRUE)
            IN  /\ SetSync(e.s)
                /\ timers' = e.timers
                /\ msgs' = e.told
       ELSE /\ msgs' = << >>
            /\ UNCHANGED << reqs, diffPending, statusPending, timers >>

\* RepoActions unmounts: every effect cleanup runs; first is what the step
\* reports before the cleanups run.
Unmount(first) ==
    IF Mounted
    THEN LET e == RunEffects(Sync, timers, inst, NoRepo, FALSE)
         IN  /\ SetSync(e.s)
             /\ timers' = e.timers
             /\ msgs' = first \o e.told
             /\ ResetPublished
    ELSE /\ msgs' = first
         /\ UNCHANGED << reqs, diffPending, statusPending, timers, PublishedVars >>

\* openRepo after the clone rejected: alert(msg), setCurrentRepo(null),
\* setMeta({repoPath: ''}).
cloneRejected(r) ==
    /\ r \in clones
    /\ clones' = clones \ {r}
    /\ currentRepo' = NoRepo
    /\ repoPath' = NoRepo
    /\ Unmount(<< Msg("alert", "openRepo", "failed", 0) >>)
    /\ UNCHANGED << inst, OtherVars >>

handleGoHome ==
    /\ currentRepo # NoRepo \/ repoPath # NoRepo
    /\ currentRepo' = NoRepo
    /\ repoPath' = NoRepo
    /\ Unmount(<< >>)
    /\ UNCHANGED << clones, inst, OtherVars >>


\* ------------------------------------------------------------------ RepoActions

AppVars == << currentRepo, repoPath, clones, inst >>

\* A tick of a polling timer: the interval callback calls the refresh of the
\* render whose effect set the timer.
tick(t) ==
    /\ t \in timers
    /\ LET c == Call(t.ep, Sync, t.inst, t.repo, Poll)
       IN  SetSync(c.s)
    /\ msgs' = << >>
    /\ UNCHANGED << AppVars, OtherVars, PublishedVars, timers >>

\* The invocations of mutations that are running.
Running == { << r.inst, r.by, r.n >> : r \in { q \in reqs : q.by \in Mutations } }

\* The number a new invocation of a mutation of the mounted instance gets.
FreshN(by) ==
    LET used == { r.n : r \in { q \in reqs : q.inst = inst /\ q.by = by } }
        free == (1..(Cardinality(used) + 1)) \ used
    IN  CHOOSE n \in free : \A m \in free : n <= m

\* A mutation up to its first await: setX(true) and the post.
Start(by) ==
    /\ Mounted
    /\ busy' = [busy EXCEPT ![BusyFlag(by)] = TRUE]
    /\ reqs' = reqs \cup {Req(PostEp(by), repoPath, inst,
                             By(by, FreshN(by), [NoLoc EXCEPT !.source = newBranchSource]))}
    /\ msgs' = << >>
    /\ UNCHANGED << AppVars, OtherVars, patch, FileVars, pullInfo, branches, log,
                    FormVars, diffPending, statusPending, timers >>

\* A mutation that the user may start although its busy flag is set.
Reentrant(by) == TRUE

\* The button of pull, push, rollback and create-branch is disabled while the
\* mutation's busy flag is set, and so is the Enter key of the name field.
Enabled(by) == ~busy[BusyFlag(by)]

\* The Pull button.
doPull ==
    /\ Enabled("doPull")
    /\ Start("doPull")

\* The Push button, disabled without a diff.
doApplyCommitPush ==
    /\ Enabled("doApplyCommitPush")
    /\ NonBlank(patch)
    /\ Start("doApplyCommitPush")

\* The Rollback button, disabled without a diff; the user confirmed the dialog.
doRollback ==
    /\ Enabled("doRollback")
    /\ NonBlank(patch)
    /\ Start("doRollback")

\* A rollback that does not wait for the user's answer.
doRollbackUnasked ==
    /\ Enabled("doRollback")
    /\ NonBlank(patch)
    /\ Start("doRollback")

\* The user dismissed the dialog of doRollback: it returns at once.
doRollbackDeclined ==
    /\ Mounted
    /\ Enabled("doRollback")
    /\ NonBlank(patch)
    /\ msgs' = << >>
    /\ UNCHANGED << AppVars, OtherVars, PublishedVars, diffPending, statusPending, timers, reqs >>

\* The branch button, disabled while checkingOut: opens and closes the
\* dropdown.
toggleBranchDropdown ==
    /\ Mounted
    /\ ~busy.checkingOut
    /\ showBranchDropdown' = ~showBranchDropdown
    /\ msgs' = << >>
    /\ UNCHANGED << AppVars, OtherVars, patch, FileVars, pullInfo, branches, log,
                    busy, showNewBranchModal, newBranchName, newBranchSource,
                    diffPending, statusPending, timers, reqs >>

\* A mousedown outside the open dropdown closes it.
handleClickOutside ==
    /\ Mounted
    /\ showBranchDropdown
    /\ showBranchDropdown' = FALSE
    /\ msgs' = << >>
    /\ UNCHANGED << AppVars, OtherVars, patch, FileVars, pullInfo, branches, log,
                    busy, showNewBranchModal, newBranchName, newBranchSource,
                    diffPending, statusPending, timers, reqs >>

\* A click on a branch that always checks it out.
doCheckoutAlways(b) ==
    /\ Mounted
    /\ showBranchDropdown
    /\ \E n \in 1..Len(branches.all) : branches.all[n] = b
    /\ Start("doCheckout")

\* A click on branch b of the open dropdown: the current branch closes the
\* dropdown and returns, any other starts a checkout.
doCheckout(b) ==
    /\ Mounted
    /\ showBranchDropdown
    /\ \E n \in 1..Len(branches.all) : branches.all[n] = b
    /\ IF b = branches.current
       THEN /\ showBranchDropdown' = FALSE
            /\ msgs' = << >>
            /\ UNCHANGED << AppVars, OtherVars, patch, FileVars, pullInfo,
                            branches, log, busy, showNewBranchModal, newBranchName, newBranchSource,
                            diffPending, statusPending, timers, reqs >>
       ELSE Start("doCheckout")

\* The New Branch button of the open dropdown.
openNewBranchModal ==
    /\ Mounted
    /\ showBranchDropdown
    /\ showBranchDropdown' = FALSE
    /\ showNewBranchModal' = TRUE
    /\ msgs' = << >>
    /\ UNCHANGED << AppVars, OtherVars, patch, FileVars, pullInfo, branches, log,
                    busy, newBranchName, newBranchSource, diffPending, statusPending, timers, reqs >>

\* Cancel, the close button or a click on the overlay of the modal.
closeNewBranchModal ==
    /\ Mounted
    /\ showNewBranchModal
    /\ showNewBranchModal' = FALSE
    /\ msgs' = << >>
    /\ UNCHANGED << AppVars, OtherVars, patch, FileVars, pullInfo, branches, log,
                    busy, showBranchDropdown, newBranchName, newBranchSource,
                    diffPending, statusPending, timers, reqs >>

\* The user edits the name field of the modal.
setNewBranchName(name) ==
    /\ Mounted
    /\ showNewBranchModal
    /\ name # newBranchName
    /\ newBranchName' = name
    /\ msgs' = << >>
    /\ UNCHANGED << AppVars, OtherVars, patch, FileVars, pullInfo, branches, log,
                    busy, showBranchDropdown, showNewBranchModal, newBranchSource,
                    diffPending, statusPending, timers, reqs >>

\* The "Create from" select of the modal: its options are branches.all.
setNewBranchSource(b) ==
    /\ Mounted
    /\ showNewBranchModal
    /\ \E n \in 1..Len(branches.all) : branches.all[n] = b
    /\ b # newBranchSource
    /\ newBranchSource' = b
    /\ msgs' = << >>
    /\ UNCHANGED << AppVars, OtherVars, patch, FileVars, pullInfo, branches, log,
                    busy, showBranchDropdown, showNewBranchModal, newBranchName,
                    diffPending, statusPending, timers, reqs >>

\* doCreateBranch, reached by the Create button (disabled while creatingBranch
\* or without a name) or by the Enter key in the name field (ignored while
\* creatingBranch): a blank name is reported and nothing else happens.
doCreateBranch ==
    /\ Mounted
    /\ showNewBranchModal
    /\ Enabled("doCreateBranch")
    /\ IF Trim(newBranchName) = << >>
       THEN /\ msgs' = << Msg("toast", "doCreateBranch", "required", 0) >>
            /\ UNCHANGED << AppVars, OtherVars, PublishedVars, diffPending, statusPending, timers, reqs >>
       ELSE Start("doCreateBranch")

\* The "+N" chip.
showAll ==
    /\ Mounted
    /\ NonBlank(patch)
    /\ ~showAllChanged
    /\ Len(changedFiles) > ChipLimit
    /\ showAllChanged' = TRUE
    /\ msgs' = << >>
    /\ UNCHANGED << AppVars, OtherVars, patch, changedFiles, selectedDiffFile, pullInfo, branches, log,
                    busy, FormVars, diffPending, statusPending, timers, reqs >>

\* A click on the n-th file chip: it selects the file, or clears the selection
\* when the file is the selected one.
selectFile(n) ==
    /\ Mounted
    /\ NonBlank(patch)
    /\ n \in 1..Len(changedFiles)
    /\ showAllChanged \/ n <= ChipLimit
    /\ LET path == changedFiles[n].path
       IN  selectedDiffFile' =
             SyncSelection(changedFiles, IF selectedDiffFile = path THEN NoPath ELSE path)
    /\ msgs' = << >>
    /\ UNCHANGED << AppVars, OtherVars, patch, changedFiles, showAllChanged, pullInfo, branches, log,
                    busy, FormVars, diffPending, statusPending, timers, reqs >>

\* setPatch(prev => prev === newDiff ? prev : newDiff)
setPatch(prev, newDiff) == IF prev = newDiff THEN prev ELSE newDiff

\* A changed-file list that is derived and published on every diff response.
RerendersAlways(prev, next) == TRUE

\* Whether a state update re-renders: React bails out of an update that leaves
\* the state equal, so useMemo(..., [patch]) and the effect on
\* [parsedChangedFiles] run again only when patch changed.
Rerenders(prev, next) == prev # next

Bool(b) == IF b THEN "true" ELSE "false"

\* The caller awaiting r after a response of r that did (changed) or did not
\* replace published state.
Resumed(r, changed) ==
    IF r.by \in Mutations THEN [Awaiting(r) EXCEPT !.loc.wrote = @ \/ changed]
    ELSE Awaiting(r)

\* A handler that publishes what it has, whether or not the request resolved.
PublishAlways(ok, live, old, new) == IF live THEN new ELSE old

\* What a response handler publishes: the fetched value when the request
\* resolved and the instance is mounted, else what is published already.
Publish(ok, live, old, new) == IF ok /\ live THEN new ELSE old

\* The diff request r completes.
diffResponse(r, ok, newDiff) ==
    /\ r \in reqs /\ r.ep = "diff"
    /\ LET next == Publish(ok, Live(r.inst), patch, setPatch(patch, newDiff))
           c == Complete(r, ok, Resumed(r, next # patch))
       IN  /\ SetSync(c.s)
           /\ Settle(c, r, ok)
           /\ patch' = next
           /\ IF ok /\ Live(r.inst) /\ Rerenders(patch, next)
              THEN /\ changedFiles' = parseChangedFiles(next)
                   /\ showAllChanged' = FALSE
                   /\ selectedDiffFile' = SyncSelection(changedFiles', selectedDiffFile)
              ELSE UNCHANGED << changedFiles, selectedDiffFile, showAllChanged >>
    /\ UNCHANGED << AppVars, OtherVars, pullInfo, branches, log, newBranchSource, timers >>

\* The status request r completes.
statusResponse(r, ok, behind) ==
    /\ r \in reqs /\ r.ep = "status"
    /\ LET next == Publish(ok, Live(r.inst), pullInfo,
                           [pullInfo EXCEPT !.upToDate = Bool(behind = 0), !.behind = behind])
           c == Complete(r, ok, Resumed(r, next # pullInfo))
       IN  /\ SetSync(c.s)
           /\ Settle(c, r, ok)
           /\ pullInfo' = next
    /\ UNCHANGED << AppVars, OtherVars, patch, FileVars, branches, log, newBranchSource, timers >>

\* The elements of a list.
Range(list) == { list[n] : n \in 1..Len(list) }

\* if (!newBranchSource || !r.data.all?.includes(newBranchSource))
\*     setNewBranchSource(r.data.current || 'main')
\* where newBranchSource is the one of the caller's render (closure) and
\* source the state the update replaces.
setNewBranchSourceDefault(closure, data, source) ==
    IF closure = "" \/ closure \notin Range(data.all)
    THEN IF data.current # "" THEN data.current ELSE "main"
    ELSE source

\* The branches request r completes.
branchesResponse(r, ok, data) ==
    /\ r \in reqs /\ r.ep = "branches"
    /\ LET next == Publish(ok, Live(r.inst), branches, data)
           c == Complete(r, ok, Resumed(r, next # branches))
       IN  /\ SetSync(c.s)
           /\ Settle(c, r, ok)
           /\ branches' = next
           /\ newBranchSource' =
                Publish(ok, Live(r.inst), newBranchSource,
                        setNewBranchSourceDefault(r.loc.source, data, newBranchSource))
    /\ UNCHANGED << AppVars, OtherVars, patch, FileVars, pullInfo, log, timers >>

\* The log request r completes.
logResponse(r, ok, commits) ==
    /\ r \in reqs /\ r.ep = "log"
    /\ LET next == Publish(ok, Live(r.inst), log, commits)
           c == Complete(r, ok, Resumed(r, next # log))
       IN  /\ SetSync(c.s)
           /\ Settle(c, r, ok)
           /\ log' = next
    /\ UNCHANGED << AppVars, OtherVars, patch, FileVars, pullInfo, branches, newBranchSource, timers >>

\* The clipboard write r settles; rejected, the textarea fallback runs.
clipboardResponse(r, ok) ==
    /\ r \in reqs /\ r.ep = "clipboard"
    /\ LET c == Complete(r, ok, Awaiting(r))
       IN  /\ SetSync(c.s)
           /\ Settle(c, r, ok)
    /\ UNCHANGED << AppVars, OtherVars, patch, FileVars, pullInfo, branches, log,
                    newBranchSource, timers >>

\* The post of a mutation completes (answer: what the mutation keeps of the
\* response); doPull publishes the pull's answer with the time of the pull
\* (at), so what it publishes is always new.
postResponse(r, ok, answer) ==
    /\ r \in reqs /\ r.by \in Mutations /\ r.ep = PostEp(r.by)
    /\ LET sets == ok /\ r.by = "doPull" /\ Live(r.inst)
           by == IF ok
                 THEN By(r.by, r.n, [answer EXCEPT !.wrote = sets,
                                                   !.source = r.loc.source])
                 ELSE Awaiting(r)
           c == Complete(r, ok, by)
       IN  /\ SetSync(c.s)
           /\ Settle(c, r, ok)
           /\ pullInfo' = IF sets
                          THEN [upToDate |-> Bool(answer.up), behind |-> answer.after]
                          ELSE pullInfo
    /\ UNCHANGED << AppVars, OtherVars, patch, FileVars, branches, log, newBranchSource, timers >>

\* There is room for another invocation of mutation by in the mounted view:
\* fewer than MaxOverlap invocations of it are running there, and fewer than
\* cap other mutations anywhere.
Room(by, cap) ==
    LET same == { x \in Running : x[1] = inst /\ x[2] = by }
    IN  /\ Cardinality(same) < MaxOverlap
        /\ same = {} => Cardinality(Running) < cap
        /\ same # {} => Cardinality(Running \ same) < cap

\* The steps of the program with the repositories in R on offer, a backend
\* whose answers come from the sets in ans, at most cap mutations running at
\* a time and at most views instances of RepoActions over the run; the branch
\* dropdown and the new-branch modal stay closed.
NextOf(R, ans, cap, views) ==
    \/ \E r \in R : (currentRepo = NoRepo => inst < views) /\ openRepo(r)
    \/ \E r \in R : cloneResolved(r)
    \/ \E r \in R : cloneRejected(r)
    \/ handleGoHome
    \/ \E t \in timers : tick(t)
    \/ Room("doPull", cap) /\ doPull
    \/ Room("doApplyCommitPush", cap) /\ doApplyCommitPush
    \/ Room("doRollback", cap) /\ doRollback
    \/ doRollbackDeclined
    \/ \E r \in reqs, d \in ans.diff : diffResponse(r, TRUE, d)
    \/ \E r \in reqs : diffResponse(r, FALSE, EmptyText)
    \/ \E r \in reqs, n \in ans.behind : statusResponse(r, TRUE, n)
    \/ \E r \in reqs : statusResponse(r, FALSE, 0)
    \/ \E r \in reqs, d \in ans.branches : branchesResponse(r, TRUE, d)
    \/ \E r \in reqs : branchesResponse(r, FALSE, InitBranches)
    \/ \E r \in reqs, d \in ans.log : logResponse(r, TRUE, d)
    \/ \E r \in reqs : logResponse(r, FALSE, << >>)
    \/ \E r \in reqs : clipboardResponse(r, TRUE)
    \/ \E r \in reqs : clipboardResponse(r, FALSE)
    \/ \E r \in reqs : \E d \in { Loc(r.by, a) : a \in ans.post } : postResponse(r, TRUE, d)
    \/ \E r \in reqs : postResponse(r, FALSE, NoLoc)

\* Two repositories and a backend with one answer per endpoint: what is
\* published is either the initial value or the fetched one.
Next == NextOf(Repos, OneAnswer, MaxMutations, MaxInst)

Spec == Init /\ [][Next]_vars

\* One repository in one view and a backend whose answers vary.
NextData ==
    \/ NextOf({"A"}, AnyAnswer, MaxMutations, MaxInstOne)
    \/ showAll

SpecData == Init /\ [][NextData]_vars

\* The steps of the branch dropdown and of the new-branch modal, with a user
\* who types the names in ans.names.
BranchUI(ans, cap) ==
    \/ toggleBranchDropdown
    \/ handleClickOutside
    \/ \E b \in {"main", "dev"} : Room("doCheckout", cap) /\ doCheckout(b)
    \/ openNewBranchModal
    \/ closeNewBranchModal
    \/ \E name \in ans.names : setNewBranchName(name)
    \/ Room("doCreateBranch", cap) /\ doCreateBranch

\* One repository in one view, with the branch dropdown and the modal in use.
NextBranch ==
    \/ NextOf({"A"}, OneAnswer, MaxMutations, MaxInstOne)
    \/ BranchUI(AnyAnswer, MaxMutations)

SpecBranch == Init /\ [][NextBranch]_vars

\* One repository in one view, a backend whose diffs are those of FileTexts,
\* and a user who clicks file chips; no mutation is started.
NextFiles ==
    \/ inst < MaxInstOne /\ openRepo("A")
    \/ cloneResolved("A")
    \/ handleGoHome
    \/ \E t \in timers : t.ep = "diff" /\ tick(t)
    \/ \E r \in reqs, d \in FileTexts : diffResponse(r, TRUE, d)
    \/ \E r \in reqs : diffResponse(r, FALSE, EmptyText)
    \/ \E r \in reqs, n \in OneAnswer.behind : statusResponse(r, TRUE, n)
    \/ \E r \in reqs, d \in OneAnswer.branches : branchesResponse(r, TRUE, d)
    \/ \E r \in reqs, d \in OneAnswer.log : logResponse(r, TRUE, d)
    \/ \E n \in 1..MaxSections : selectFile(n)

SpecFiles == Init /\ [][NextFiles]_vars

\* What the backend answers about branches when branches come and go.
BranchAnswers ==
    { [current |-> "main", all |-> << "main", "dev" >>],
      [current |-> "dev", all |-> << "main", "dev" >>],
      [current |-> "main", all |-> << "main" >>],
      [current |-> "dev", all |-> << "dev" >>] }

\* One repository in one view, a backend whose branches come and go, and a
\* user who checks branches out and picks the branch to create from.
NextSource ==
    \/ inst < MaxInstOne /\ openRepo("A")
    \/ cloneResolved("A")
    \/ \E r \in reqs, d \in BranchAnswers : branchesResponse(r, TRUE, d)
    \/ \E r \in reqs : branchesResponse(r, FALSE, InitBranches)
    \/ \E r \in reqs, d \in OneAnswer.diff : diffResponse(r, TRUE, d)
    \/ \E r \in reqs, d \in OneAnswer.log : logResponse(r, TRUE, d)
    \/ \E r \in reqs : postResponse(r, TRUE, NoLoc)
    \/ \E r \in reqs : postResponse(r, FALSE, NoLoc)
    \/ toggleBranchDropdown
    \/ \E b \in {"main", "dev"} : Room("doCheckout", MaxMutations) /\ doCheckout(b)
    \/ openNewBranchModal
    \/ closeNewBranchModal
    \/ \E b \in {"main", "dev"} : setNewBranchSource(b)

SpecSource == Init /\ [][NextSource]_vars

\* The state of App and RepoActions.
PageVars == << AppVars, PublishedVars, diffPending, statusPending, timers, reqs >>

TerminalVars == << isMountedRef, wsStateRef, sessions >>

\* The working copy is changed from outside the page: the assistant in the
\* terminal edits files, fetches, or switches branches.
edit(copy) ==
    /\ backend.changing
    /\ backend' = copy
    /\ backend' # backend
    /\ msgs' = << >>
    /\ UNCHANGED << PageVars, TerminalVars, RouteVars >>

\* The last change of the working copy has been made.
quiesce ==
    /\ backend.changing
    /\ backend' = [backend EXCEPT !.changing = FALSE]
    /\ msgs' = << >>
    /\ UNCHANGED << PageVars, TerminalVars, RouteVars >>

\* One repository in one view over a working copy that changes until it
\* quiesces; a fetch that resolves answers with the working copy as it is.
\* Pulls, which change the working copy, are started while it still changes.
NextLive ==
    \/ inst < MaxInstOne /\ openRepo("A")
    \/ cloneResolved("A")
    \/ handleGoHome
    \/ \E t \in timers : t.ep = "diff" /\ tick(t)
    \/ \E t \in timers : t.ep = "status" /\ tick(t)
    \/ \E r \in reqs : diffResponse(r, TRUE, backend.diff)
    \/ \E r \in reqs : diffResponse(r, FALSE, EmptyText)
    \/ \E r \in reqs : statusResponse(r, TRUE, backend.behind)
    \/ \E r \in reqs : statusResponse(r, FALSE, 0)
    \/ \E r \in reqs : branchesResponse(r, TRUE, backend.branches)
    \/ \E r \in reqs : branchesResponse(r, FALSE, InitBranches)
    \/ \E r \in reqs, d \in OneAnswer.log : logResponse(r, TRUE, d)
    \/ backend.changing /\ Room("doPull", MaxMutations) /\ doPull
    \/ \E r \in reqs : \E d \in { Loc(r.by, a) : a \in OneAnswer.post } : postResponse(r, TRUE, d)
    \/ \E r \in reqs : postResponse(r, FALSE, NoLoc)
    \/ \E copy \in {InitBackend, EditedBackend} : edit(copy)
    \/ quiesce

\* Scheduling: an interval keeps firing, so a tick that can issue a fetch
\* is not put off for ever; and a fetch that is issued again and again is
\* answered successfully in the end.
Fairness ==
    /\ WF_vars(\E t \in timers : t.ep = "diff" /\ tick(t))
    /\ WF_vars(\E t \in timers : t.ep = "status" /\ tick(t))
    /\ SF_vars(\E r \in reqs : diffResponse(r, TRUE, backend.diff))
    /\ SF_vars(\E r \in reqs : statusResponse(r, TRUE, backend.behind))
    /\ SF_vars(\E r \in reqs : branchesResponse(r, TRUE, backend.branches))

SpecLive == Init /\ [][NextLive]_vars /\ Fairness

\* ------------------------------------------------------------------ ClaudeTerminal

\* One run of the effect on [repoPath]: its WebSocket (readyState ws, opened
\* once its open event fired), its term (disposed by the cleanup), and the
\* number of onmessage calls suspended at `await ev.data.text()`.
Session(path) ==
    [path |-> path, ws |-> "CONNECTING", opened |-> FALSE, disposed |-> FALSE, reading |-> 0]

\* The component is mounted: the last run of the effect has not been cleaned up.
TerminalMounted == sessions # << >> /\ ~sessions[Len(sessions)].disposed

\* if (ws.readyState === CONNECTING || ws.readyState === OPEN) ws.close()
close(readyState) ==
    IF readyState \in {"CONNECTING", "OPEN"} THEN "CLOSING" ELSE readyState

\* The sessions after the cleanup of the last run of the effect: ws.close()
\* and term.dispose().
Cleanup(ss) ==
    [ss EXCEPT ![Len(ss)] = [@ EXCEPT !.ws = close(@), !.disposed = TRUE]]

\* term.write / term.writeln of session k, called by handler by.
Write(by, k) ==
    Msg("term", by, IF sessions[k].disposed THEN "disposed" ELSE "open", k)

\* ClaudeTerminal is rendered with repoPath = path: on mount, and when the
\* prop changed, the cleanup of the previous run and then the effect run:
\* isMountedRef.current = true, a new term and a new WebSocket.
ClaudeTerminal(path) ==
    /\ Len(sessions) < MaxSessions
    /\ TerminalMounted => sessions[Len(sessions)].path # path
    /\ isMountedRef' = TRUE
    /\ wsStateRef' = "connecting"
    /\ sessions' = Append(IF TerminalMounted THEN Cleanup(sessions) ELSE sessions,
                          Session(path))
    /\ msgs' = << >>
    /\ UNCHANGED << PageVars, backend, RouteVars >>

\* ClaudeTerminal unmounts: the cleanup of the last run.
unmountTerminal ==
    /\ TerminalMounted
    /\ isMountedRef' = FALSE
    /\ wsStateRef' = "closed"
    /\ sessions' = Cleanup(sessions)
    /\ msgs' = << >>
    /\ UNCHANGED << PageVars, backend, RouteVars >>

\* ws.onopen of session k.
onopen(k) ==
    /\ k \in 1..Len(sessions)
    /\ sessions[k].ws = "CONNECTING"
    /\ wsStateRef' = "open"
    /\ sessions' = [sessions EXCEPT ![k] = [@ EXCEPT !.opened = TRUE,
                                                     !.ws = IF isMountedRef THEN "OPEN"
                                                            ELSE "CLOSING"]]
    /\ msgs' = << >>
    /\ UNCHANGED << PageVars, backend, RouteVars, isMountedRef >>

\* ws.onmessage of session k, delivered while the socket is open, up to its
\* await: a string is written at once, a Blob is read first.
onmessage(k, blob) ==
    /\ k \in 1..Len(sessions)
    /\ sessions[k].ws = "OPEN"
    /\ IF ~isMountedRef
       THEN /\ msgs' = << >>
            /\ UNCHANGED sessions
       ELSE IF blob
       THEN /\ sessions[k].reading < MaxReading
            /\ sessions' = [sessions EXCEPT ![k].reading = @ + 1]
            /\ msgs' = << >>
       ELSE /\ msgs' = << Write("onmessage", k) >>
            /\ UNCHANGED sessions
    /\ UNCHANGED << PageVars, backend, RouteVars, isMountedRef, wsStateRef >>

\* ev.data.text() resolved: ws.onmessage of session k runs on: term.write(s).
dataText(k) ==
    /\ k \in 1..Len(sessions)
    /\ sessions[k].reading > 0
    /\ sessions' = [sessions EXCEPT ![k].reading = @ - 1]
    /\ msgs' = << Write("onmessage", k) >>
    /\ UNCHANGED << PageVars, backend, RouteVars, isMountedRef, wsStateRef >>

\* ws.onclose: if (isMountedRef.current) term.writeln('[session closed]')
onclosed(k) == IF isMountedRef THEN << Write("onclose", k) >> ELSE << >>

\* The socket of session k is closed: by the server, after ws.close(), or
\* because the connection failed.  A socket that never opened fires its
\* error event (ws.onerror: console.error) before its close event.
onclose(k) ==
    /\ k \in 1..Len(sessions)
    /\ sessions[k].ws # "CLOSED"
    /\ wsStateRef' = "closed"
    /\ sessions' = [sessions EXCEPT ![k].ws = "CLOSED"]
    /\ msgs' = (IF sessions[k].opened THEN << >>
                ELSE << Msg("console", "onerror", "error", k) >>) \o onclosed(k)
    /\ UNCHANGED << PageVars, backend, RouteVars, isMountedRef >>

\* The terminal of a page whose repoPath changes.
NextTerminal ==
    \/ \E path \in Repos \cup {NoRepo} : ClaudeTerminal(path)
    \/ unmountTerminal
    \/ \E k \in 1..MaxSessions : onopen(k)
    \/ \E k \in 1..MaxSessions, blob \in BOOLEAN : onmessage(k, blob)
    \/ \E k \in 1..MaxSessions : dataText(k)
    \/ \E k \in 1..MaxSessions : onclose(k)

SpecTerminal == Init /\ [][NextTerminal]_vars

\* ---------------------------------------------------------------------------
\* App: the route of the page (location.hash), the groups and the
\* repository the route names.
\* ---------------------------------------------------------------------------

\* Renders React makes in one task before the model stops following them.
MaxRenders == 4

\* The value of the last "k=v" part of the query string h with key k.
Value(h, k) ==
    LET ns == { n \in 1..Len(h) : h[n][1] = k }
    IN  IF ns = {} THEN "" ELSE h[CHOOSE n \in ns : \A m \in ns : m <= n][2]

\* parseHash(): the params of the query string of location.hash.
parseHash(h) == Params(Value(h, "provider"), Value(h, "key"), Value(h, "repo"))

HasValue(part) == part[2] # ""

\* buildHash('repos', params): one part per parameter that is set.
buildHash(params) ==
    SelectSeq(<< << "provider", params.provider >>, << "key", params.key >>,
                 << "repo", params.repo >> >>, HasValue)

\* The hashes a user opens the page with or navigates to.
Hashes ==
    { << >> } \cup { buildHash(Params(g.provider, g.key, r)) :
                       g \in Groups, r \in {""} \cup Repos }

\* What App renders from and what its handlers and effects write.
AppState ==
    [cur |-> current, prov |-> providers, pend |-> pendingRepoId,
     repo |-> currentRepo, path |-> repoPath, route |-> routeRef,
     opening |-> openingFromUrlRef, hash |-> hash, event |-> hashchange,
     loading |-> loading, opens |-> opens, resets |-> resets, alerts |-> << >>]

\* The state a render reads: a change of it makes React render again.
Rendered(q) == << q.cur, q.prov, q.pend, q.repo, q.path >>

\* location.hash = target when it differs: a hashchange event follows.
setHash(q, target) ==
    IF q.hash # target THEN [q EXCEPT !.hash = target, !.event = TRUE] ELSE q

updateHashFromState(q, cur, repo) ==
    setHash(q, buildHash(Params(cur.provider, cur.key, repo)))

applyRoute(q, route) ==
    LET q1 == [q EXCEPT !.route = route,
                        !.cur = IF route.provider # "" /\ route.key # ""
                                THEN Group(route.provider, route.key) ELSE @]
    IN  IF route.repo = ""
        THEN [q1 EXCEPT !.repo = NoRepo, !.path = NoRepo, !.pend = ""]
        ELSE [q1 EXCEPT !.pend = route.repo]

\* openRepo up to its await: setCurrentRepo(repo) and the clone request.
openRepoBy(q, r, by) ==
    [q EXCEPT !.repo = r, !.opens = @ \cup {[repo |-> r, by |-> by]}]

\* The effect on [providers, current, phase, pendingRepoId]; c is the render
\* its closure holds, q the writes made so far in this commit.
routeEffect(c, q) ==
    LET route == q.route
        rid   == IF route.repo # "" THEN route.repo ELSE c.pend
    IN  IF route.provider = "" \/ route.key = "" THEN q
        ELSE IF rid = "" THEN [q EXCEPT !.repo = NoRepo, !.path = NoRepo]
        ELSE IF /\ c.prov
                /\ rid \in ReposIn(Group(route.provider, route.key))
                /\ c.repo # rid
             THEN openRepoBy(q, rid, "route")
             ELSE q

\* The effect on [current]: a switch of group closes the repository.
groupEffect(c, q) ==
    IF q.opening THEN q
    ELSE IF c.repo # NoRepo
         THEN updateHashFromState([q EXCEPT !.repo = NoRepo, !.path = NoRepo],
                                  c.cur, NoRepo)
         ELSE q

\* groupEffect without the closing of the repository.
groupEffectKeeps(c, q) == q

\* The effect on [phase, current, currentRepo].
hashEffect(c, q) == updateHashFromState(q, c.cur, c.repo)

\* The effects of the commit of render c, the render before it being prev,
\* and of the renders their writes cause, in the order App declares them.
RECURSIVE Commit(_, _, _)
Commit(prev, c, n) ==
    LET q1 == IF prev.prov # c.prov \/ prev.cur # c.cur \/ prev.pend # c.pend
              THEN routeEffect(c, c) ELSE c
        q2 == IF prev.cur # c.cur THEN groupEffect(c, q1) ELSE q1
        q3 == IF prev.cur # c.cur \/ prev.repo # c.repo
              THEN hashEffect(c, q2) ELSE q2
    IN  IF n = 0 \/ Rendered(q3) = Rendered(c) THEN q3
        ELSE Commit(c, q3, n - 1)

\* The writes q of a handler that ran on render s, and the renders after it.
Handled(s, q) ==
    IF Rendered(q) = Rendered(s) THEN q ELSE Commit(s, q, MaxRenders)

\* RepoActions follows the repository App renders last in the step.
RepoActionsFollows(q) ==
    IF currentRepo = NoRepo /\ q.repo # NoRepo
    THEN LET e == RunEffects(Sync, timers, inst + 1, q.path, TRUE)
         IN  /\ inst < MaxInst
             /\ inst' = inst + 1
             /\ SetSync(e.s)
             /\ timers' = e.timers
             /\ msgs' = q.alerts \o e.told
             /\ UNCHANGED PublishedVars
    ELSE IF currentRepo # NoRepo /\ q.repo = NoRepo
    THEN Unmount(q.alerts) /\ UNCHANGED inst
    ELSE IF currentRepo # NoRepo /\ q.path # repoPath
    THEN LET e == RunEffects(Sync, timers, inst, q.path, TRUE)
         IN  /\ SetSync(e.s)
             /\ timers' = e.timers
             /\ msgs' = q.alerts \o e.told
             /\ UNCHANGED << inst, PublishedVars >>
    ELSE /\ msgs' = q.alerts
         /\ UNCHANGED << inst, reqs, diffPending, statusPending, timers,
                         PublishedVars >>

\* The state after a step of App that ends in q.
SetApp(q) ==
    /\ current' = q.cur
    /\ providers' = q.prov
    /\ pendingRepoId' = q.pend
    /\ currentRepo' = q.repo
    /\ repoPath' = q.path
    /\ routeRef' = q.route
    /\ openingFromUrlRef' = q.opening
    /\ hash' = q.hash
    /\ hashchange' = q.event
    /\ loading' = q.loading
    /\ opens' = q.opens
    /\ resets' = q.resets
    /\ clones' = { o.repo : o \in q.opens }
    /\ RepoActionsFollows(q)
    /\ UNCHANGED << backend, isMountedRef, wsStateRef, sessions >>

\* The page is opened at hash h: App mounts and every effect runs once on
\* the first render: the route of the hash is applied, load() sends its
\* request.
mountApp(h) ==
    /\ hash = NoLocation
    /\ LET s  == [AppState EXCEPT !.hash = h]
           q1 == applyRoute(s, parseHash(h))
           q2 == routeEffect(s, q1)
           q3 == [q2 EXCEPT !.loading = TRUE]
           q4 == groupEffect(s, q3)
           q5 == hashEffect(s, q4)
       IN  SetApp(Handled(s, q5))

\* The user edits the address, follows a link or goes back: location.hash
\* becomes h.
navigate(h) ==
    /\ hash # NoLocation
    /\ h # hash
    /\ SetApp(setHash(AppState, h))

\* window 'hashchange': applyRoute(parseHash()).
onHash ==
    /\ hashchange
    /\ LET s == AppState
       IN  SetApp(Handled(s, applyRoute([s EXCEPT !.event = FALSE],
                                        parseHash(hash))))

\* load() after /api/providers answered; its closure is the first render's,
\* where pendingRepoId is ''.
loadResolved ==
    /\ loading
    /\ LET s     == AppState
           route == routeRef
           named == route.provider # "" /\ route.key # ""
           willOpenFromUrl == named /\ route.repo # ""
           g     == IF named THEN Group(route.provider, route.key)
                    ELSE Group("github", "g1")
           match == willOpenFromUrl /\ route.repo \in ReposIn(g)
           q1    == [s EXCEPT !.prov = TRUE, !.loading = FALSE, !.cur = g,
                              !.opening = @ \/ willOpenFromUrl]
           q2    == IF match THEN openRepoBy(q1, route.repo, "load")
                    ELSE [q1 EXCEPT !.resets = @ \/ willOpenFromUrl]
       IN  SetApp(Handled(s, q2))

\* load() after /api/providers failed: finally { setLoadingRepos(false) }.
loadRejected ==
    /\ loading
    /\ SetApp([AppState EXCEPT !.loading = FALSE])

\* What the caller of openRepo does once it settled (openRepo catches the
\* failure of its clone, so its promise always resolves): the route effect
\* and load() clear pendingRepoId, load() schedules the reset of
\* openingFromUrlRef.
Settled(q, o) ==
    LET q1 == IF o.by \in {"load", "route"} THEN [q EXCEPT !.pend = ""] ELSE q
    IN  IF o.by = "load" THEN [q1 EXCEPT !.resets = TRUE] ELSE q1

\* openRepo after the clone resolved, and its caller after it.
openRepoResolved(o) ==
    /\ o \in opens
    /\ LET s == AppState
           q == [s EXCEPT !.path = o.repo, !.opens = @ \ {o}]
       IN  SetApp(Handled(s, Settled(q, o)))

\* openRepo after the clone rejected, and its caller after it.
openRepoRejected(o) ==
    /\ o \in opens
    /\ LET s == AppState
           q == [s EXCEPT !.repo = NoRepo, !.path = NoRepo, !.opens = @ \ {o},
                          !.alerts = << Msg("alert", "openRepo", "failed", 0) >>]
       IN  SetApp(Handled(s, Settled(q, o)))

\* setTimeout(() => { openingFromUrlRef.current = false; }, 0)
resetOpening ==
    /\ resets
    /\ SetApp([AppState EXCEPT !.opening = FALSE, !.resets = FALSE])

\* GroupTabs: a click on the tab of group g.
setCurrent(g) ==
    /\ providers
    /\ g # current
    /\ LET s == AppState
       IN  SetApp(Handled(s, [s EXCEPT !.cur = g]))

\* RepoList: a click on repository r of the current group.
onSelect(r) ==
    /\ providers
    /\ currentRepo = NoRepo
    /\ r \in ReposIn(current)
    /\ LET s == AppState
       IN  SetApp(Handled(s, openRepoBy(s, r, "click")))

\* handleGoHome with the route of the page.
goHome ==
    /\ hash # NoLocation
    /\ LET s == AppState
           q == [s EXCEPT !.repo = NoRepo, !.path = NoRepo]
       IN  SetApp(Handled(s, updateHashFromState(q, s.cur, NoRepo)))

NextRoute ==
    \/ \E h \in Hashes : mountApp(h)
    \/ \E h \in Hashes : navigate(h)
    \/ onHash
    \/ loadResolved
    \/ loadRejected
    \/ \E o \in opens : openRepoResolved(o)
    \/ \E o \in opens : openRepoRejected(o)
    \/ resetOpening
    \/ \E g \in Groups : setCurrent(g)
    \/ \E r \in Repos : onSelect(r)
    \/ goHome

SpecRoute == Init /\ [][NextRoute]_vars

\* ------------------------------------------------------------------ sanity

TypeOK ==
    /\ currentRepo \in Repos \cup {NoRepo}
    /\ repoPath \in Repos \cup {NoRepo}
    /\ inst \in 0..MaxInst
    /\ patch \in DiffTexts \cup FileTexts
    /\ selectedDiffFile = SyncSelection(changedFiles, selectedDiffFile)
    /\ Cardinality(clones) <= MaxClones
    /\ changedFiles = parseChangedFiles(patch)
    /\ \A r \in reqs : r.inst \in 1..inst
    /\ \A i \in Insts : diffPending[i] = (\E r \in reqs : r.ep = "diff" /\ r.inst = i)
    /\ \A i \in Insts : statusPending[i] = (\E r \in reqs : r.ep = "status" /\ r.inst = i)
    /\ showBranchDropdown \in BOOLEAN /\ showNewBranchModal \in BOOLEAN
    /\ ~Mounted => (~showBranchDropdown /\ ~showNewBranchModal /\ busy = InitBusy)
    /\ \A r \in reqs : r.by \in Mutations => r.n \in 1..MaxOverlap
    /\ Len(msgs) <= 3


\* ------------------------------------------------------------------ claims

\* The repository view stays mounted over this step and its meta.repoPath
\* changes from one repository to another.
Switch ==
    /\ Mounted /\ Mounted' /\ inst' = inst
    /\ repoPath \in Repos /\ repoPath' \in Repos /\ repoPath' # repoPath

\* The mounted view is the same before and after this step.
SameView == Mounted /\ Mounted' /\ inst' = inst

\* The published state of a fetch endpoint changes in this step.
Written(ep) ==
    \/ ep = "diff" /\ patch' # patch
    \/ ep = "status" /\ pullInfo' # pullInfo
    \/ ep = "branches" /\ branches' # branches
    \/ ep = "log" /\ log' # log

\* C1: once the active repository is B, no response to a fetch issued for a
\* repository A # B is written into the published patch, pullInfo, branches
\* or log: a step in which a fetch completes and its endpoint's published
\* state changes is a step of a fetch for the active repository.
C1_StaleResponseNeverApplied ==
    [][\A r \in reqs \ reqs' :
          (SameView /\ r.inst = inst /\ r.ep \in FetchEps /\ r.repo \in Repos
             /\ repoPath \in Repos /\ Written(r.ep))
          => r.repo = repoPath]_vars

\* C2: at most one diff fetch and at most one status fetch (of a repository)
\* is in flight.
C2_SingleFlight ==
    \A ep \in {"diff", "status"} :
        Cardinality({ r \in reqs : r.ep = ep /\ r.repo \in Repos }) <= 1

\* C3: at most one branches fetch of a view is in flight.
C3_BranchesSingleFlight ==
    \A i \in Insts : Cardinality({ r \in reqs : r.ep = "branches" /\ r.inst = i }) <= 1

C5_SwitchCancelsAll ==
    [][Switch => ~ \E r \in reqs' :
                     r.inst = inst /\ r.ep \in FetchEps /\ r.repo = repoPath]_vars

\* C6: the initial load of the commit that switches the mounted view to
\* repository B is not skipped on account of a fetch for the previous
\* repository: after it a diff fetch and a status fetch for B are in flight.
C6_GuardNotShared ==
    [][Switch => \A ep \in {"diff", "status"} :
                     \E r \in reqs' : r.ep = ep /\ r.inst = inst /\ r.repo = repoPath']_vars

\* C7: every request in flight was issued by the view that is mounted now.
C7_NothingOutlivesView ==
    \A r \in reqs : r.repo \in Repos => Live(r.inst)

\* C8: while a repository path is active in the mounted view there is exactly
\* one diff timer and one status timer, both of that view and bound to that
\* path; otherwise there is no timer.
C8_Timers ==
    IF Mounted /\ repoPath # NoRepo
    THEN timers = { [ep |-> ep, repo |-> repoPath, inst |-> inst] : ep \in {"diff", "status"} }
    ELSE timers = {}

\* C8 witness: the mounted view was switched from A to B (a request it issued
\* for A is still in flight) and its timers are the two timers of B.
W8_TimersAfterSwitch ==
    /\ Mounted /\ repoPath = "B"
    /\ \E r \in reqs : r.inst = inst /\ r.repo = "A"
    /\ Cardinality(timers) = 2
    /\ \A t \in timers : t.repo = "B"

\* C9: a switch of the mounted view from A to B resets the published diff
\* text, changed-file list, pull status, branch state and commit log.
C9_SwitchResets ==
    [][Switch => /\ patch' = EmptyText
                 /\ changedFiles' = << >>
                 /\ pullInfo' = InitPullInfo
                 /\ branches' = InitBranches
                 /\ log' = << >>]_vars

\* C10: a step in which a diff fetch of the mounted view completes and the
\* published patch keeps its value (the fetched text equals it, or the fetch
\* failed or was cancelled) publishes no changed-file list: the list and the
\* expansion of the chips, which every publication resets, stay as they are.
C10_RefreshDiffIdempotent ==
    [][(SameView /\ patch' = patch /\ \E r \in reqs \ reqs' : r.ep = "diff" /\ r.inst = inst)
       => (changedFiles' = changedFiles /\ showAllChanged' = showAllChanged)]_vars

\* C10 witness: the chips are expanded over a published diff and a diff fetch
\* of the mounted view is in flight, which the backend may answer with the
\* very text that is published.
W10_ExpandedAndFetching ==
    /\ Mounted /\ showAllChanged /\ patch = TextMany
    /\ \E r \in reqs : r.ep = "diff" /\ r.inst = inst /\ r.by = "poll"

\* ------------------------------------------------------------------ claims C11..C20

\* What this step told the user or the console.
Told == { msgs[n] : n \in 1..Len(msgs) }

\* The invocation of a mutation that awaits request r.
Invocation(r) == << r.inst, r.by, r.n >>

\* C11: a step in which a fetch issued by a poll tick fails (the interval
\* callback logs the error) leaves the published patch, changed-file list and
\* pull status as they were, releases the endpoint's ref, leaves both timers
\* running and shows the user nothing.
C11_PollFailureKeepsSnapshot ==
    [][(\E m \in Told' : m.via = "console" /\ m.by = "poll")
       => /\ patch' = patch /\ changedFiles' = changedFiles /\ pullInfo' = pullInfo
          /\ \A r \in reqs \ reqs' :
                /\ r.ep = "diff" => ~diffPending'[r.inst]
                /\ r.ep = "status" => ~statusPending'[r.inst]
          /\ timers' = timers /\ timers # {}
          /\ \A m \in Told' : m.via = "console"]_vars

\* C11 witness: a poll has just failed over a published diff and pull status.
W11_PollFailedOverSnapshot ==
    /\ Mounted /\ patch = TextX /\ pullInfo.behind = 1
    /\ \E m \in Told : m.via = "console" /\ m.by = "poll"
    /\ \E t \in timers : t.inst = inst

\* C12: a click on the current branch in the dropdown sends no request,
\* leaves the branch state as it is, sets no busy flag and reports nothing.
C12_CheckoutCurrentIsNoOp ==
    [][\A b \in {"main", "dev"} :
          (b = branches.current /\ doCheckout(b))
          => (reqs' = reqs /\ branches' = branches /\ busy' = busy /\ msgs' = << >>)]_vars

\* C12 witness: the dropdown is open on a fetched branch list whose current
\* branch is listed, with no checkout running.
W12_DropdownOnCurrent ==
    /\ Mounted /\ showBranchDropdown /\ ~busy.checkingOut
    /\ branches.current = "main"
    /\ \E n \in 1..Len(branches.all) : branches.all[n] = branches.current

\* C13: while checkingOut is set no checkout request is sent.
C13_NoCheckoutWhileCheckingOut ==
    [][busy.checkingOut => \A r \in reqs' \ reqs : r.ep # "checkout"]_vars

\* C14: doCreateBranch with a name of white space only (or no name) reports
\* that a name is required, sends no request and leaves creatingBranch unset.
C14_BlankNameRejected ==
    [][((\A n \in 1..Len(newBranchName) : newBranchName[n] = " ") /\ doCreateBranch)
       => /\ reqs' = reqs
          /\ ~busy.creatingBranch /\ ~busy'.creatingBranch
          /\ msgs' = << Msg("toast", "doCreateBranch", "required", 0) >>]_vars

\* C14 witness: a name of one space has just been reported as missing.
W14_BlankNameReported ==
    /\ Mounted /\ showNewBranchModal /\ newBranchName = << " " >>
    /\ msgs = << Msg("toast", "doCreateBranch", "required", 0) >>
    /\ ~busy.creatingBranch
    /\ ~ \E r \in reqs : r.by = "doCreateBranch"

\* C15: while the busy flag of pull, push, rollback or create-branch is set,
\* no request of that mutation is sent.
C15_NonReentrant ==
    [][\A by \in {"doPull", "doApplyCommitPush", "doRollback", "doCreateBranch"} :
          busy[BusyFlag(by)] => \A r \in reqs' \ reqs : r.ep # PostEp(by)]_vars

\* C15 witness: a create-branch is running with the modal still open on a
\* name, and there is room for a second invocation.
W15_BusyAndRoom ==
    /\ Mounted /\ busy.creatingBranch
    /\ showNewBranchModal /\ Trim(newBranchName) # << >>
    /\ Room("doCreateBranch", MaxMutations)

\* C16: a busy flag is set only while a request of its mutation is still
\* outstanding: once the post and the follow-ups of every invocation have
\* resolved or rejected, the flag is clear.
C16_BusyFlagCleared ==
    \A by \in Mutations :
        busy[BusyFlag(by)] => \E r \in reqs : r.inst = inst /\ r.by = by

\* C16 witness: a checkout has just been reported as failed and its flag is
\* clear.
W16_FailedAndCleared ==
    /\ Mounted /\ ~busy.checkingOut
    /\ Msg("toast", "doCheckout", "failed", 0) \in Told

\* C17: a mutation (of a repository) that is reported as failed has replaced
\* no published state.
C17_FailureChangesNothing ==
    [][\A m \in Told', r \in reqs \ reqs' :
          (m.via = "toast" /\ m.kind = "failed" /\ r.by = m.by /\ r.repo \in Repos)
          => ~r.loc.wrote]_vars

\* C18: the step that ends an invocation of a mutation (of a repository)
\* shows the user exactly one message of that mutation.
C18_ExactlyOneOutcome ==
    [][\A r \in reqs \ reqs' :
          (r.by \in Mutations /\ r.repo \in Repos
             /\ ~ \E q \in reqs' : Invocation(q) = Invocation(r))
          => Cardinality({ n \in 1..Len(msgs') :
                             msgs'[n].via # "console" /\ msgs'[n].by = r.by }) = 1]_vars

\* C19: the toast of a pull that succeeded is chosen from
\* pulledCount = max(0, before - after): "already up to date" when it is 0,
\* "pulled N commits" with N = pulledCount otherwise.
C19_PullMessageFromCount ==
    [][\A m \in Told', r \in reqs \ reqs' :
          (r.by = "doPull" /\ r.repo \in Repos
             /\ m.by = "doPull" /\ m.via = "toast" /\ m.kind # "failed")
          => LET pulledCount == Max(0, r.loc.before - r.loc.after)
             IN  /\ pulledCount >= 0
                 /\ pulledCount = 0 => m.kind = "upToDate"
                 /\ pulledCount > 0 => (m.kind = "pulled" /\ m.count = pulledCount)]_vars

\* C20: every pull status that a status refresh or a pull of a repository
\* publishes has upToDate true exactly if behind is 0, so that this holds in
\* every state in which a pull status is published (upToDate is not null).
C20_UpToDateIffNotBehind ==
    [][\A r \in reqs \ reqs' :
          (r.repo \in Repos /\ pullInfo' # pullInfo /\ pullInfo'.upToDate # "null")
          => (pullInfo'.upToDate = "true" <=> pullInfo'.behind = 0)]_vars

\* ------------------------------------------------------------------ claims C21..C30

\* C21: when a pull of a repository whose answer reported after.behind = 0
\* ends with its success toast and the published behind count is 0 (the
\* backend's count stayed 0), the published upToDate is true.
C21_PullEndsUpToDate ==
    [][\A r \in reqs \ reqs' :
          (/\ r.by = "doPull" /\ r.repo \in Repos /\ r.inst = inst /\ SameView
           /\ r.loc.after = 0
           /\ \E m \in Told' : m.by = "doPull" /\ m.via = "toast" /\ m.kind # "failed"
           /\ pullInfo'.behind = 0)
          => pullInfo'.upToDate = "true"]_vars

\* C22: while the published patch is empty or blank, no commitPush and no
\* rollback request is sent.
C22_NoDiffNoPushNoRollback ==
    [][(\A n \in 1..Len(patch) : patch[n].k = "blank")
       => \A r \in reqs' \ reqs : r.ep \notin {"commitPush", "rollback"}]_vars

\* C22 witness: a view of a repository with nothing published as its diff, no
\* mutation running and neither button busy.
W22_NothingToPush ==
    /\ Mounted /\ repoPath \in Repos
    /\ patch = EmptyText
    /\ ~busy.pushing /\ ~busy.rolling
    /\ Running = {}

\* C23: a declined confirmation sends no request, leaves the rolling flag
\* clear and the patch as it is; a rollback request is sent only by the step
\* in which the user confirmed.
C23_RollbackNeedsConfirm ==
    [][/\ doRollbackDeclined
            => (reqs' = reqs /\ ~busy.rolling /\ ~busy'.rolling /\ patch' = patch)
       /\ (\E r \in reqs' \ reqs : r.ep = "rollback") => doRollback]_vars

\* C23 witness: a view with a diff and the Rollback button enabled, where the
\* dialog is shown and can be declined, and no rollback request in flight.
W23_RollbackOffered ==
    /\ Mounted /\ repoPath \in Repos
    /\ NonBlank(patch)
    /\ ~busy.rolling
    /\ ~ \E r \in reqs : r.by = "doRollback"

\* The place of a request among the awaits of its mutation: 0 for the post.
StageOf(r) == IF r.ep = PostEp(r.by) THEN 0 ELSE Stage(r.by, r.ep)

\* C24: a mutation of a repository that gets past its diff refresh without
\* failing has issued a diff fetch of its own: when a request it awaited
\* before the diff refresh completes and the mutation neither fails nor awaits
\* another request before the diff refresh, its diff fetch is in flight.
C24_MutationRefreshesDiff ==
    [][\A r \in reqs \ reqs' :
          (/\ r.by \in Mutations /\ r.repo \in Repos
           /\ StageOf(r) < Stage(r.by, "diff")
           /\ ~ \E m \in Told' : m.by = r.by /\ m.kind = "failed"
           /\ ~ \E q \in reqs' : /\ Invocation(q) = Invocation(r)
                                 /\ StageOf(q) < Stage(r.by, "diff"))
          => \E q \in reqs' : Invocation(q) = Invocation(r) /\ q.ep = "diff"]_vars

\* C30: in a view that stays mounted the published patch changes only in a
\* step that completes a diff fetch, the branch state only in one that
\* completes a branches fetch, the pull status only in one that completes a
\* status fetch.
C30_OnlyOwnFetchWrites ==
    [][SameView =>
         /\ (patch' # patch \/ branches' # branches \/ pullInfo' # pullInfo)
              => reqs \ reqs' # {}
         /\ \A r \in reqs \ reqs' :
              r.repo \in Repos =>
                /\ patch' # patch => r.ep = "diff"
                /\ branches' # branches => r.ep = "branches"
                /\ pullInfo' # pullInfo => r.ep = "status"]_vars

\* The lines of a text that are section headers: the lines at which the
\* section-boundary scan starts a section.
Headers(text) == { n \in 1..Len(text) : StartsSection(text[n]) }

\* The section of a text that starts at its header line n.
SectionAt(text, n) == SubSeq(text, n, SectionEnd(text, n + 1) - 1)

\* The header lines "diff --git a/<old> b/<new>" of a text, and the k-th.
PlainHeaders(text) == { n \in 1..Len(text) : text[n].k = "hdr" }
PlainHeader(text, k) ==
    CHOOSE n \in PlainHeaders(text) :
        Cardinality({ m \in PlainHeaders(text) : m < n }) = k - 1

Has(section, k) == \E n \in 1..Len(section) : section[n].k = k

\* The status and the path the markers and the header of a section stand for.
StatusOf(section) ==
    IF Has(section, "new") THEN "added"
    ELSE IF Has(section, "del") THEN "deleted"
    ELSE IF Has(section, "rnFrom") /\ Has(section, "rnTo") THEN "renamed"
    ELSE "modified"
PathOf(section) ==
    IF StatusOf(section) = "deleted" THEN section[1].a
    ELSE IF StatusOf(section) = "renamed"
         THEN section[CHOOSE n \in 1..Len(section) : section[n].k = "rnTo"].b
         ELSE section[1].b

\* The paths extractFileDiff is asked for: none, the paths of the files, and
\* the path of no file.
AskedPaths == { NoPath, PathX, PathY, PathD, << "q.txt" >> }

\* C25: the changed-file list of the published diff has one entry per section
\* header of that diff.
C25_EntryPerHeader ==
    Len(parseChangedFiles(patch)) = Cardinality(Headers(patch))

\* C26: the k-th entry of the changed-file list carries the status that the
\* markers of the k-th "diff --git a/<old> b/<new>" section stand for, and its
\* path: the pre-image path of the header for a deleted file, the rename
\* target for a renamed one, else the post-image path of the header.
C26_StatusAndPath ==
    LET files == parseChangedFiles(patch)
    IN  /\ Len(files) = Cardinality(PlainHeaders(patch))
        /\ \A k \in 1..Len(files) :
              LET section == SectionAt(patch, PlainHeader(patch, k))
              IN  files[k] = [path |-> PathOf(section), status |-> StatusOf(section)]

\* C27: extractFileDiff(patch, path) is the section of the first header whose
\* pre-image or post-image path is path, and the empty text when there is no
\* such header, as for the empty path.
C27_ExtractIsFirstSection ==
    \A path \in AskedPaths :
        LET of == { n \in PlainHeaders(patch) : patch[n].a = path \/ patch[n].b = path }
        IN  extractFileDiff(patch, path) =
              IF of = {} THEN EmptyText
              ELSE SectionAt(patch, CHOOSE n \in of : \A m \in of : n <= m)

\* C28: for every entry of the changed-file list, extractFileDiff of the
\* entry's path is the section the entry was derived from.
C28_ChipShowsItsSection ==
    LET files == parseChangedFiles(patch)
    IN  \A k \in 1..Len(files) :
          /\ k <= Cardinality(PlainHeaders(patch))
          /\ extractFileDiff(patch, files[k].path) # EmptyText
          /\ extractFileDiff(patch, files[k].path) = SectionAt(patch, PlainHeader(patch, k))

\* The paths of a changed-file list.
PathsOf(files) == { files[n].path : n \in 1..Len(files) }

\* C29: after every step the selected path is empty or the path of an entry
\* of the changed-file list, and a step that publishes a changed-file list
\* without the selected path clears the selection.
C29_SelectionFollowsFiles ==
    [][/\ selectedDiffFile' = NoPath \/ selectedDiffFile' \in PathsOf(changedFiles')
       /\ (selectedDiffFile # NoPath /\ changedFiles' # changedFiles
             /\ selectedDiffFile \notin PathsOf(changedFiles'))
            => selectedDiffFile' = NoPath]_vars

\* C29 witness: the file x.txt is selected, shown as the only changed file,
\* while a diff fetch of the view is in flight whose answer may lack it.
W29_SelectedWhileFetching ==
    /\ Mounted
    /\ selectedDiffFile = PathX
    /\ PathsOf(changedFiles) = {PathX}
    /\ displayedPatch(patch, selectedDiffFile) = patch
    /\ \E r \in reqs : r.ep = "diff" /\ r.inst = inst

\* C36: while a clone is pending the repository path is empty or that of the
\* displayed current repository; the step in which a clone resolves commits
\* the path of the opened repository, and the step in which it is rejected
\* clears the current repository and the repository path together.
C36_OpenIsTwoPhase ==
    [][/\ clones' # {} => repoPath' \in {NoRepo, currentRepo'}
       /\ \A r \in clones \ clones' :
            IF \E m \in Told' : m.via = "alert" /\ m.by = "openRepo"
            THEN currentRepo' = NoRepo /\ repoPath' = NoRepo
            ELSE repoPath' = r]_vars

\* C37: once no clone request is pending, either no repository is open and the
\* repository path is empty, or the repository path is that of the displayed
\* current repository.
C37_SettledOpensAgree ==
    clones = {} =>
        \/ currentRepo = NoRepo /\ repoPath = NoRepo
        \/ currentRepo # NoRepo /\ repoPath = currentRepo

\* The requests a step cancels: the commit changes meta.repoPath or unmounts
\* the view, and the cleanups abort the view's requests that carry a signal.
CancelledBy ==
    IF Mounted /\ (repoPath' # repoPath \/ ~Mounted')
    THEN { r \in reqs : r.inst = inst /\ HasSignal(r) }
    ELSE {}

\* C35: a step that cancels fetches takes them out of flight, reports nothing
\* about them to the user and logs no error (the only message of such a step
\* is the alert of a failed clone), and leaves the published patch, pull
\* status, branch state and log of a view that stays mounted as they are.
C35_CancelIsSilent ==
    [][CancelledBy # {} =>
         /\ CancelledBy \cap reqs' = {}
         /\ \A m \in Told' : m.via = "alert" /\ m.by = "openRepo"
         /\ SameView => \A ep \in FetchEps : ~Written(ep)]_vars

\* C35 witness: a poll's fetch and the initial load's branches fetch of the
\* mounted view are in flight while the clone of another repository is
\* pending, whose result cancels them.
W35_FetchesAboutToBeCancelled ==
    /\ Mounted /\ repoPath \in Repos
    /\ \E r \in reqs : r.inst = inst /\ r.by = "poll"
    /\ \E r \in reqs : r.inst = inst /\ r.by = "init" /\ r.ep = "branches"
    /\ clones \ {repoPath} # {}

\* A branches fetch of the mounted view resolves in this step (a rejected
\* one is logged to the console).
BranchesRefreshed ==
    /\ SameView
    /\ \E r \in reqs \ reqs' : r.ep = "branches" /\ r.inst = inst
    /\ \A m \in Told' : m.via # "console"

\* C31: a step in which a branches fetch of the mounted view resolves resets
\* a create-from branch that is empty or not in the fetched list to the
\* fetched current branch, and leaves the create-from branch a member of a
\* fetched list that is not empty; the first refresh of a view, before which
\* the select of the modal had no option to choose, leaves the create-from
\* branch equal to the fetched current branch.
C31_SourceDefaultsToCurrent ==
    [][BranchesRefreshed =>
         /\ (newBranchSource = "" \/ newBranchSource \notin Range(branches'.all))
              => newBranchSource' = branches'.current
         /\ branches'.all # << >> => newBranchSource' \in Range(branches'.all)
         /\ branches.all = << >> => newBranchSource' = branches'.current]_vars

\* Repository A is open in the mounted view and the working copy has quiesced.
Quiet == Mounted /\ currentRepo = "A" /\ repoPath = "A" /\ ~backend.changing

\* C33: if from some time on the repository stays open and its working copy
\* is no longer changed, then from some time on the published patch is the
\* working copy's diff and the published behind count the working copy's.
C33_PollingConverges ==
    <>[]Quiet => <>[](patch = backend.diff /\ pullInfo.behind = backend.behind)

\* C33 witness: the working copy has quiesced while a poll has just failed
\* and neither the published patch nor the published behind count is the
\* working copy's.
W33_QuietAndStale ==
    /\ Quiet
    /\ patch # backend.diff /\ pullInfo.behind # backend.behind
    /\ \E m \in Told : m.via = "console" /\ m.by = "poll"

\* C34: if from some time on the repository stays open with a fetched branch
\* list and its working copy is no longer changed, then from some time on the
\* published branch state is the working copy's.
C34_BranchesConverge ==
    <>[](Quiet /\ branches.all # << >>) => <>[](branches = backend.branches)

\* C39: after every step the socket of a session that was torn down is
\* closing or closed, and no handler of a session has written to the
\* session's term after the term was disposed.
C39_NoWriteAfterTeardown ==
    [][/\ \A k \in 1..Len(sessions') :
            sessions'[k].disposed => sessions'[k].ws \in {"CLOSING", "CLOSED"}
       /\ \A m \in Told' : m.via = "term" => m.kind # "disposed"]_vars

\* The repository the route names, when it is one of the loaded group the
\* route names; NoRepo otherwise.
Routed(route) ==
    IF providers /\ route.repo \in ReposIn(Group(route.provider, route.key))
    THEN route.repo ELSE NoRepo

\* C38: opening a repository from a URL route is not undone by the
\* group-switch effect: the step that applies a route naming a repository of
\* a loaded group ends with that repository the current one, whatever group
\* was selected and whatever repository was open before, and the step in
\* which the clone of a repository opened from the URL succeeds, the
\* repository still being the current one, ends with it open and its
\* repository path set.
C38_RouteOpenSticks ==
    [][/\ (routeRef' # routeRef /\ Routed(routeRef') # NoRepo)
            => currentRepo' = routeRef'.repo
       /\ \A o \in opens \ opens' :
            (/\ o.by \in {"route", "load"}
             /\ currentRepo = o.repo
             /\ \A m \in Told' : m.via # "alert")
            => currentRepo' = o.repo /\ repoPath' = o.repo]_vars

====
